---- MODULE Spec2Model ----
(***************************************************************************)
(* Model of manim/animation/animation.py: the Animation base class (its    *)
(* construction, its begin / interpolate / update_mobjects / finish /      *)
(* clean_up_from_scene methods and the staggering function get_sub_alpha)  *)
(* and the module function prepare_animation.                              *)
(*                                                                         *)
(* Numbers.  alpha and lag_ratio are Python floats.  A float is modelled   *)
(* as a binary floating-point number with a Prec-bit significand and a     *)
(* smallest positive value of 2^-FracBits, stored as the integer count of  *)
(* that smallest value ("units"), so One == 2^FracBits stands for 1.0.     *)
(* Every arithmetic operation rounds its exact result to the nearest such  *)
(* number, ties to even, as IEEE-754 does for Python's binary64 (which has *)
(* a 53-bit significand).                                                  *)
(***************************************************************************)
EXTENDS Integers, Sequences, FiniteSets, TLC

\* ------------------------------------------------------------------ bounds
Prec == 3          \* significand bits of the modelled float
FracBits == 5      \* the smallest positive float is 2^-FracBits
MaxFamily == 3     \* largest family (members with points) of a mobject

\* ------------------------------------------------------- float arithmetic
RECURSIVE Pow2(_)
Pow2(k) == IF k <= 0 THEN 1 ELSE 2 * Pow2(k - 1)

One == Pow2(FracBits)

\* spacing of the floats around the value x (x in units, x >= 0)
RECURSIVE Quantum(_)
Quantum(x) == IF x < Pow2(Prec) THEN 1 ELSE 2 * Quantum(x \div 2)

\* the integer nearest to num / den, ties to even (num >= 0, den > 0)
RoundHalfEven(num, den) ==
    LET k == num \div den
        r == num % den
    IN  IF 2 * r < den THEN k
        ELSE IF 2 * r > den THEN k + 1
        ELSE IF k % 2 = 0 THEN k ELSE k + 1

\* the float nearest to the exact value num / den units (num >= 0, den > 0)
Fl(num, den) ==
    LET q == Quantum(num \div den)
    IN  q * RoundHalfEven(num, den * q)

IsFloat(x) == x >= 0 /\ Fl(x, 1) = x

\* a decimal literal num/den of the program text, as the float Python reads
FloatOf(num, den) == Fl(num * One, den)

FAdd(x, y) == Fl(x + y, 1)
FSub(x, y) == IF x >= y THEN Fl(x - y, 1) ELSE 0 - Fl(y - x, 1)
FMul(x, y) == IF (x >= 0) = (y >= 0) \/ x = 0 \/ y = 0
              THEN Fl((IF x < 0 THEN 0 - x ELSE x) * (IF y < 0 THEN 0 - y ELSE y), One)
              ELSE 0 - Fl((IF x < 0 THEN 0 - x ELSE x) * (IF y < 0 THEN 0 - y ELSE y), One)

Min(a, b) == IF a <= b THEN a ELSE b
Max(a, b) == IF a >= b THEN a ELSE b

\* every float in [0, 1]
Floats01 == {x \in 0..One : IsFloat(x)}

\* ------------------------------------------------ Animation.get_sub_alpha
\* Variants of get_sub_alpha with one slip each.
\* lower = index: the lag ratio forgotten in the window offset
get_sub_alpha_lower_unscaled(lag_ratio, alpha, index, num_submobjects) ==
    LET full_length == FAdd(FMul((num_submobjects - 1) * One, lag_ratio), One)
        value == FMul(alpha, full_length)
        lower == index * One
    IN  Min(Max(FSub(value, lower), 0), One)

\* full_length = num_submobjects * lag_ratio + 1: the timeline one lag too long
get_sub_alpha_long_timeline(lag_ratio, alpha, index, num_submobjects) ==
    LET full_length == FAdd(FMul(num_submobjects * One, lag_ratio), One)
        value == FMul(alpha, full_length)
        lower == FMul(index * One, lag_ratio)
    IN  Min(Max(FSub(value, lower), 0), One)

\* lower = (index + 1) * lag_ratio: the index taken as 1-based
get_sub_alpha_one_based(lag_ratio, alpha, index, num_submobjects) ==
    LET full_length == FAdd(FMul((num_submobjects - 1) * One, lag_ratio), One)
        value == FMul(alpha, full_length)
        lower == FMul((index + 1) * One, lag_ratio)
    IN  Min(Max(FSub(value, lower), 0), One)

\* lag_ratio and alpha are floats (units); index and num_submobjects ints.
\* variant: the result not clamped to [0, 1]
get_sub_alpha_unclamped(lag_ratio, alpha, index, num_submobjects) ==
    LET full_length == FAdd(FMul((num_submobjects - 1) * One, lag_ratio), One)
        value == FMul(alpha, full_length)
        lower == FMul(index * One, lag_ratio)
    IN  FSub(value, lower)

get_sub_alpha(lag_ratio, alpha, index, num_submobjects) ==
    LET full_length == FAdd(FMul((num_submobjects - 1) * One, lag_ratio), One)
        value == FMul(alpha, full_length)
        lower == FMul(index * One, lag_ratio)
    IN  Min(Max(FSub(value, lower), 0), One)

\* ------------------------------------------------- rate functions
\* rate_func is an opaque curve on [0, 1] (manim.utils.rate_functions);
\* the default is smooth.  t is a float in [0, One].
RateFuncs == {"smooth", "there_and_back"}

rate_func(name, t) ==
    CASE name = "smooth" -> Fl(3 * t * t * One - 2 * t * t * t, One * One)
      [] name = "there_and_back" ->
            IF 2 * t <= One THEN FMul(2 * One, t) ELSE FMul(2 * One, FSub(One, t))

\* ------------------------------------------------------------- Mobject
\* The heap maps the identity of each live mobject to its attributes;
\* identities are never reused.  points[k] is the visual state of the k-th
\* family member with points.
MobjectClasses == {"Mobject", "OpenGLMobject"}

NewMobject ==
    [cls |-> "Mobject", points |-> <<>>,
     updating_suspended |-> FALSE, has_updater |-> FALSE]

\* allocation of the object m under the fresh identity id
Alloc(h, id, m) == [j \in DOMAIN h \cup {id} |-> IF j = id THEN m ELSE h[j]]

\* an object no reference reaches any more is reclaimed
Free(h, id) == [j \in DOMAIN h \ {id} |-> h[j]]

\* Mobject.copy(): a new object (identity id), equal in every attribute
Mobject_copy(h, id, new) == Alloc(h, new, h[id])

suspend_updating(h, id) == [h EXCEPT ![id].updating_suspended = TRUE]

resume_updating(h, id) == [h EXCEPT ![id].updating_suspended = FALSE]

\* Mobject.update(dt): runs the updaters unless updating is suspended
Mobject_update(h, id, dt) ==
    IF h[id].updating_suspended \/ ~h[id].has_updater
    THEN h
    ELSE [h EXCEPT ![id].points = [k \in DOMAIN @ |-> @[k] + dt]]

\* family_members_with_points(): references <<id, k>> in a stable order
family_members_with_points(h, id) == [k \in 1..Len(h[id].points) |-> <<id, k>>]

\* Scene.remove(mobject)
Scene_remove(sc, id) == sc \ {id}

\* ----------------------------------------------------------- Animation
\* S is the instance (a record of its attributes), h the heap, c the class
\* of the instance: "Animation" keeps the base interpolate_submobject,
\* "Shift" stands for a subclass that overrides it.
AnimationClasses == {"Animation", "Shift"}

\* a constructor argument: None, a mobject of the heap, or something else
IsMobjectArg(a) == a.kind \in MobjectClasses

_typecheck_input(a) ==
    IF a.kind = "None" THEN "ok"
    ELSE IF ~(a.kind = "Mobject") /\ ~(a.kind = "OpenGLMobject") THEN "TypeError"
    ELSE "ok"

\* variant: the flag read negated
is_remover_negated(S) == ~S.remover

is_remover(S) == S.remover

\* variant: the snapshot a new empty mobject, as the constructor leaves it
create_starting_mobject_empty(S, h, new) == Alloc(h, new, NewMobject)

create_starting_mobject(S, h, new) == Mobject_copy(h, S.mobject, new)

\* variant: the ordering not matching the arguments of interpolate_submobject
get_all_mobjects_swapped(S) == <<S.starting_mobject, S.mobject>>

get_all_mobjects(S) == <<S.mobject, S.starting_mobject>>

\* zip(...) stops at the shorter family
get_all_families_zipped(S, h) ==
    LET fams == [j \in 1..2 |-> family_members_with_points(h, get_all_mobjects(S)[j])]
        n == Min(Len(fams[1]), Len(fams[2]))
    IN  [i \in 1..n |-> <<fams[1][i], fams[2][i]>>]

\* variant: the target not filtered out
get_all_mobjects_to_update_unfiltered(S) == get_all_mobjects(S)

get_all_mobjects_to_update(S) ==
    SelectSeq(get_all_mobjects(S), LAMBDA m : m # S.mobject)

\* the hook: a no-op in Animation; the subclass moves the submobject to
\* its starting position advanced by alpha
Shift_interpolate_submobject(h, sub, start, alpha) ==
    [h EXCEPT ![sub[1]].points[sub[2]] = h[start[1]].points[start[2]] + alpha]

interpolate_submobject(c, h, sub, start, alpha) ==
    IF c = "Shift" THEN Shift_interpolate_submobject(h, sub, start, alpha) ELSE h

\* variant: the index counted from one
sub_alpha_calls_one_based(families) ==
    [i \in 1..Len(families) |-> [index |-> i, num_submobjects |-> Len(families)]]

\* enumerate(families) and len(families): the index and num_submobjects
\* arguments of the get_sub_alpha call of each iteration of the loop
sub_alpha_calls(families) ==
    [i \in 1..Len(families) |-> [index |-> i - 1, num_submobjects |-> Len(families)]]

RECURSIVE InterpolateFrom(_, _, _, _, _, _)
InterpolateFrom(c, S, h, families, alpha, i) ==
    IF i > Len(families) THEN h
    ELSE LET call == sub_alpha_calls(families)[i]
             sub_alpha == get_sub_alpha(S.lag_ratio, alpha, call.index, call.num_submobjects)
             h1 == interpolate_submobject(c, h, families[i][1], families[i][2], sub_alpha)
         IN  InterpolateFrom(c, S, h1, families, alpha, i + 1)

interpolate_mobject(c, S, h, alpha) ==
    InterpolateFrom(c, S, h, get_all_families_zipped(S, h), alpha, 1)

\* the value interpolate gives to the rate function
interpolate_alpha(alpha) == Min(Max(alpha, 0), One)

\* variant: the rate function applied to the argument as given
interpolate_unclamped(c, S, h, alpha) ==
    interpolate_mobject(c, S, h, rate_func(S.rate_func, alpha))

interpolate(c, S, h, alpha) ==
    LET a == interpolate_alpha(alpha)
    IN  interpolate_mobject(c, S, h, rate_func(S.rate_func, a))

\* begin and finish return <<instance, heap, heap in which their interpolate
\* call was made>>; new is the identity of the copy; the previous
\* starting_mobject loses its only reference

\* variant: interpolate(0) called before the updating is suspended
begin_interpolate_first(c, S, h, new) ==
    LET h1 == Free(create_starting_mobject(S, h, new), S.starting_mobject)
        S1 == [S EXCEPT !.starting_mobject = new]
        h2 == interpolate(c, S1, h1, 0)
    IN  <<S1, IF S1.suspend_mobject_updating THEN suspend_updating(h2, S1.mobject) ELSE h2, h1>>

\* variant: the snapshot of an earlier begin() kept
begin_keep_snapshot(c, S, h, new) ==
    LET h2 == IF S.suspend_mobject_updating THEN suspend_updating(h, S.mobject) ELSE h
    IN  <<S, interpolate(c, S, h2, 0), h2>>

\* variant: the copy made last, after the suspension and interpolate(0)
begin_copy_last(c, S, h, new) ==
    LET h1 == IF S.suspend_mobject_updating THEN suspend_updating(h, S.mobject) ELSE h
        h2 == interpolate(c, S, h1, 0)
        h3 == Free(create_starting_mobject(S, h2, new), S.starting_mobject)
    IN  <<[S EXCEPT !.starting_mobject = new], h3, h1>>

begin(c, S, h, new) ==
    LET h1 == Free(create_starting_mobject(S, h, new), S.starting_mobject)
        S1 == [S EXCEPT !.starting_mobject = new]
        h2 == IF S1.suspend_mobject_updating THEN suspend_updating(h1, S1.mobject) ELSE h1
    IN  <<S1, interpolate(c, S1, h2, 0), h2>>

\* variant: finish only resumes updating, without the final interpolate(1)
finish_without_interpolate(c, S, h) ==
    <<S, IF S.suspend_mobject_updating /\ S.mobject # 0
         THEN resume_updating(h, S.mobject) ELSE h, h>>

finish(c, S, h) ==
    LET h1 == interpolate(c, S, h, One)
    IN  <<S, IF S.suspend_mobject_updating /\ S.mobject # 0
              THEN resume_updating(h1, S.mobject) ELSE h1, h>>

RECURSIVE UpdateAll(_, _, _)
UpdateAll(h, mobs, dt) ==
    IF mobs = <<>> THEN h
    ELSE UpdateAll(Mobject_update(h, Head(mobs), dt), Tail(mobs), dt)

update_mobjects(S, h, dt) == UpdateAll(h, get_all_mobjects_to_update(S), dt)

clean_up_from_scene(S, sc) ==
    IF is_remover(S) THEN Scene_remove(sc, S.mobject) ELSE sc

\* variant: the type check made after the attributes are assigned
Animation__init__late_check(a, h, new, lag_ratio, rate, remover, suspend) ==
    LET h1 == Alloc(h, new + 1, NewMobject)
        h2 == IF a.kind # "None" THEN h1 ELSE Alloc(h1, new + 2, NewMobject)
    IN  [status |-> IF _typecheck_input(a) = "TypeError" THEN "TypeError" ELSE "constructed",
         self |-> [run_time |-> One,
                   rate_func |-> rate,
                   name |-> "None",
                   remover |-> remover,
                   suspend_mobject_updating |-> suspend,
                   lag_ratio |-> lag_ratio,
                   starting_mobject |-> new + 1,
                   mobject |-> IF a.kind # "None" THEN a.ref ELSE new + 2],
         heap |-> h2,
         allocs |-> IF a.kind # "None" THEN 1 ELSE 2]

\* Animation.__init__: the outcome, the attributes set, the new heap and
\* the number of objects allocated.  Mobject() for starting_mobject is
\* always created; the sentinel target only when the argument is None.
\* new is the last identity in use.
Animation__init__(a, h, new, lag_ratio, rate, remover, suspend) ==
    IF _typecheck_input(a) = "TypeError"
    THEN [status |-> "TypeError", self |-> [x \in {} |-> 0], heap |-> h, allocs |-> 0]
    ELSE LET h1 == Alloc(h, new + 1, NewMobject)
             h2 == IF a.kind # "None" THEN h1 ELSE Alloc(h1, new + 2, NewMobject)
         IN  [status |-> "constructed",
              self |-> [run_time |-> One,
                        rate_func |-> rate,
                        name |-> "None",
                        remover |-> remover,
                        suspend_mobject_updating |-> suspend,
                        lag_ratio |-> lag_ratio,
                        starting_mobject |-> new + 1,
                        mobject |-> IF a.kind # "None" THEN a.ref ELSE new + 2],
              heap |-> h2,
              allocs |-> IF a.kind # "None" THEN 1 ELSE 2]

\* ---------------------------------------------------- prepare_animation
\* x.kind is the type of the input, x.repr its text.  The result of a
\* builder's build() is a new animation, named after the builder.
AnimationBuilder_build(x) == [obj |-> "built", by |-> x.kind]

NoValue == [obj |-> "none", by |-> "none"]

\* variant: an animation is returned as a copy of itself
prepare_animation_copying(x) ==
    IF x.kind = "mobject._AnimationBuilder"
    THEN [outcome |-> "return", value |-> AnimationBuilder_build(x), builds |-> 1, msg |-> <<>>]
    ELSE IF x.kind = "opengl_mobject._AnimationBuilder"
    THEN [outcome |-> "return", value |-> AnimationBuilder_build(x), builds |-> 1, msg |-> <<>>]
    ELSE IF x.kind = "Animation"
    THEN [outcome |-> "return", value |-> [obj |-> "copy", by |-> "none"], builds |-> 0, msg |-> <<>>]
    ELSE [outcome |-> "TypeError", value |-> NoValue, builds |-> 0,
          msg |-> <<"Object ", x.repr, " cannot be converted to an animation">>]

\* variant: the OpenGL builder not recognised
prepare_animation_one_builder(x) ==
    IF x.kind = "mobject._AnimationBuilder"
    THEN [outcome |-> "return", value |-> AnimationBuilder_build(x), builds |-> 1, msg |-> <<>>]
    ELSE IF x.kind = "Animation"
    THEN [outcome |-> "return", value |-> [obj |-> "self", by |-> "none"], builds |-> 0, msg |-> <<>>]
    ELSE [outcome |-> "TypeError", value |-> NoValue, builds |-> 0,
          msg |-> <<"Object ", x.repr, " cannot be converted to an animation">>]

prepare_animation(x) ==
    IF x.kind = "mobject._AnimationBuilder"
    THEN [outcome |-> "return", value |-> AnimationBuilder_build(x), builds |-> 1, msg |-> <<>>]
    ELSE IF x.kind = "opengl_mobject._AnimationBuilder"
    THEN [outcome |-> "return", value |-> AnimationBuilder_build(x), builds |-> 1, msg |-> <<>>]
    ELSE IF x.kind = "Animation"
    THEN [outcome |-> "return", value |-> [obj |-> "self", by |-> "none"], builds |-> 0, msg |-> <<>>]
    ELSE [outcome |-> "TypeError", value |-> NoValue, builds |-> 0,
          msg |-> <<"Object ", x.repr, " cannot be converted to an animation">>]

\* ------------------------------------------------------------------ state
VARIABLES
    sa_args,      \* arguments of a family-wide staggering computation
    sa_result,    \* its per-index results (empty until computed)
    sa_pc,        \* "ready" before the computation, "done" after it
    cls,          \* class of the animation instance
    arg,          \* the mobject argument given to the constructor
    status,       \* "new", "constructed", or "TypeError" (constructor raised)
    self,         \* the instance: a record of the attributes set so far
    heap,         \* the mobjects
    scene,        \* identities of the mobjects in the scene
    clock,        \* number of update_mobjects calls that ran an updater
    last_id,      \* the last identity given to a mobject
    begins,       \* number of begin() calls so far
    hist,         \* the last call and what happened since the last begin
    ret           \* what the last prepare_animation call returned or raised

lifecycle_vars == <<cls, arg, status, self, heap, last_id, begins, scene, clock, hist, ret>>
sa_vars == <<sa_args, sa_result, sa_pc>>
vars == <<sa_args, sa_result, sa_pc, cls, arg, status, self, heap, last_id, begins,
          scene, clock, hist, ret>>

\* --------------------------------------- staggering over a whole family
\* The loop of interpolate_mobject calls get_sub_alpha once per index with
\* num_submobjects = len(families).
SubAlphas(lag_ratio, alpha, n) ==
    [i \in 1..n |-> get_sub_alpha(lag_ratio, alpha, i - 1, n)]

\* another mobject of the scene, which no animation of the model refers to
Bystander == 0

NoObject == [x \in {} |-> 0]
NoReturn == [input |-> [kind |-> "none", repr |-> "none"], outcome |-> "none",
             value |-> NoValue, builds |-> 0, msg |-> <<>>]
NoHeap == [j \in {} |-> NewMobject]
\* op, arg: the last method called and its argument; begun: begin() was
\* called; clean_run: the calls since the last begin() were interpolate
\* calls, followed by at most one finish(); interpolated: one of them was an
\* interpolate; at_begin: the points of the target and of the snapshot when
\* the last begin() returned; finished: finish() was called since the last
\* begin(); paused_before: the updating of the target was suspended when the
\* last begin() was called; nested_paused: it was suspended when the last
\* begin() or finish() made its interpolate call
NoHist == [op |-> "none", arg |-> 0, begun |-> FALSE, clean_run |-> FALSE,
           interpolated |-> FALSE, at_begin |-> <<>>, finished |-> FALSE,
           paused_before |-> FALSE, nested_paused |-> FALSE]

LifecycleIdle ==
    /\ cls = "Animation"
    /\ arg = [kind |-> "None", ref |-> 0, shown |-> FALSE]
    /\ status = "new"
    /\ self = NoObject
    /\ heap = NoHeap
    /\ last_id = 0
    /\ begins = 0
    /\ scene = {Bystander}
    /\ clock = 0
    /\ hist = NoHist
    /\ ret = NoReturn

InitSubAlpha ==
    /\ sa_args \in [lag_ratio : Floats01, alpha : Floats01, n : 1..MaxFamily]
    /\ sa_result = <<>>
    /\ sa_pc = "ready"
    /\ LifecycleIdle

ComputeSubAlphas ==
    /\ sa_pc = "ready"
    /\ sa_result' = SubAlphas(sa_args.lag_ratio, sa_args.alpha, sa_args.n)
    /\ sa_pc' = "done"
    /\ UNCHANGED <<sa_args, lifecycle_vars>>

NextSubAlpha == ComputeSubAlphas

SpecSubAlpha == InitSubAlpha /\ [][NextSubAlpha]_vars

\* ------------------------------------------- properties of get_sub_alpha
SaDone == sa_pc = "done"
Abs(x) == IF x < 0 THEN 0 - x ELSE x

\* C1: for every lag_ratio in [0,1], n >= 1 and index i, get_sub_alpha(0, i, n)
\* is 0 and get_sub_alpha(1, i, n) is 1.
C1_EndpointsExact ==
    SaDone =>
        /\ sa_args.alpha = 0 => \A i \in 1..sa_args.n : sa_result[i] = 0
        /\ sa_args.alpha = One => \A i \in 1..sa_args.n : sa_result[i] = One

\* C2: with lag_ratio = 0 every index of the family gets the same sub-alpha.
C2_Simultaneous ==
    (SaDone /\ sa_args.lag_ratio = 0) =>
        \A i, j \in 1..sa_args.n : sa_result[i] = sa_result[j]

C2_Witness ==
    /\ SaDone /\ sa_args.lag_ratio = 0 /\ sa_args.n >= 2
    /\ sa_result[1] > 0 /\ sa_result[1] < One

\* C3: with lag_ratio = 1 and n > 1 the windows of consecutive indices are
\* disjoint and consecutive: member i+1 has progress only if member i has
\* reached 1, and the point of the timeline (alpha * n) where member i is at 1
\* while member i+1 has not started is exactly the end of member i's window.
C3_Sequential ==
    (SaDone /\ sa_args.lag_ratio = One /\ sa_args.n > 1) =>
        \A i \in 1..(sa_args.n - 1) :
            /\ sa_result[i + 1] > 0 => sa_result[i] = One
            /\ (sa_result[i] = One /\ sa_result[i + 1] = 0)
                   <=> FMul(sa_args.alpha, sa_args.n * One) = i * One

C3_Witness ==
    /\ SaDone /\ sa_args.lag_ratio = One /\ sa_args.n > 1
    /\ \E i \in 1..(sa_args.n - 1) :
          sa_result[i] = One /\ sa_result[i + 1] > 0 /\ sa_result[i + 1] < One

\* the scenario of the specification: n = 3, lag_ratio = 0.5, alpha = 0.4
C4_Scenario ==
    /\ SaDone /\ sa_args.n = 3
    /\ sa_args.lag_ratio = FloatOf(1, 2) /\ sa_args.alpha = FloatOf(4, 10)

\* x is the decimal num/10 up to the rounding of one float operation
NearTenths(x, num) == Abs(10 * x - num * One) * Pow2(Prec + 1) <= 10 * One

ExactWindow(lag_ratio, alpha, i, n) ==
    Min(Max(alpha * ((n - 1) * lag_ratio + One) - i * lag_ratio * One, 0), One * One)

\* no operation of get_sub_alpha rounds on these arguments
NoRounding(lag_ratio, alpha, i, n) ==
    LET a == (n - 1) * lag_ratio
        v == alpha * (a + One)
        l == i * lag_ratio
    IN  /\ IsFloat(a) /\ IsFloat(a + One) /\ IsFloat(l)
        /\ v % One = 0 /\ IsFloat(v \div One)
        /\ IsFloat(Abs(v \div One - l))

MaxBegins == 2     \* begin() calls in one behaviour
MaxClock == 2      \* update_mobjects() calls in one behaviour that run an updater

LagRatios == {0, One \div 2, One}
Alphas == {0 - One \div 2, 0, One \div 2, One, One + One \div 2}
Dts == {1}

PrepInputs ==
    {[kind |-> "mobject._AnimationBuilder", repr |-> "_AnimationBuilder"],
     [kind |-> "opengl_mobject._AnimationBuilder", repr |-> "_AnimationBuilder"],
     [kind |-> "Animation", repr |-> "Animation"],
     [kind |-> "int", repr |-> "42"],
     [kind |-> "None", repr |-> "None"],
     [kind |-> "Mobject", repr |-> "Mobject"]}

SaIdle ==
    /\ sa_args = [lag_ratio |-> 0, alpha |-> 0, n |-> 1]
    /\ sa_result = <<>>
    /\ sa_pc = "idle"

\* Before construction: the class, the argument (None, not a mobject, or a
\* mobject of the heap with identity 1) and whether the scene shows it.
\* suspendeds, updaters, in_scene: the possible answers to "is the updating
\* of the argument suspended", "has it an updater", "is it in the scene".
InitWith(suspendeds, updaters, in_scene) ==
    /\ SaIdle
    /\ cls \in AnimationClasses
    /\ \/ /\ arg \in {[kind |-> "None", ref |-> 0, shown |-> FALSE],
                      [kind |-> "int", ref |-> 42, shown |-> FALSE]}
          /\ heap = NoHeap
          /\ last_id = 0
          /\ scene = {Bystander}
       \/ /\ arg \in [kind : {"Mobject"}, ref : {1}, shown : in_scene]
          /\ \E n \in 0..MaxFamily, s \in suspendeds, u \in updaters :
                heap = Alloc(NoHeap, 1,
                             [cls |-> "Mobject", points |-> [k \in 1..n |-> 0],
                              updating_suspended |-> s, has_updater |-> u])
          /\ last_id = 1
          /\ scene = IF arg.shown THEN {Bystander, 1} ELSE {Bystander}
       \/ /\ arg \in [kind : {"OpenGLMobject"}, ref : {1}, shown : in_scene]
          /\ heap = Alloc(NoHeap, 1,
                          [cls |-> "OpenGLMobject", points |-> <<0>>,
                           updating_suspended |-> FALSE, has_updater |-> FALSE])
          /\ last_id = 1
          /\ scene = IF arg.shown THEN {Bystander, 1} ELSE {Bystander}
    /\ status = "new"
    /\ self = NoObject
    /\ begins = 0
    /\ clock = 0
    /\ hist = NoHist
    /\ ret = NoReturn

Called(op, a) ==
    [hist EXCEPT !.op = op, !.arg = a,
                 !.clean_run = /\ @
                               /\ op \in {"interpolate", "finish"}
                               /\ hist.op \in {"begin", "interpolate"},
                 !.interpolated = @ \/ op = "interpolate"]

\* the argument is in the scene, updating and without updaters
Init == InitWith({FALSE}, {FALSE}, {TRUE})

ConstructWith(lags, rates, removers, suspends) ==
    /\ status = "new"
    /\ \E lag \in lags, rate \in rates, remover \in removers, suspend \in suspends :
          LET r == Animation__init__(arg, heap, last_id, lag, rate, remover, suspend)
          IN  /\ status' = r.status
              /\ self' = r.self
              /\ heap' = r.heap
              /\ last_id' = last_id + r.allocs
    /\ hist' = [hist EXCEPT !.op = "__init__"]
    /\ UNCHANGED <<sa_vars, cls, arg, begins, scene, clock, ret>>

Begin ==
    /\ status = "constructed"
    /\ begins < MaxBegins
    /\ LET r == begin(cls, self, heap, last_id + 1)
       IN  /\ self' = r[1]
           /\ heap' = r[2]
           /\ hist' = [op |-> "begin", arg |-> 0, begun |-> TRUE,
                       clean_run |-> TRUE, interpolated |-> FALSE,
                       at_begin |-> <<r[2][r[1].mobject].points,
                                      r[2][r[1].starting_mobject].points>>,
                       finished |-> FALSE,
                       paused_before |-> heap[self.mobject].updating_suspended,
                       nested_paused |-> r[3][self.mobject].updating_suspended]
    /\ last_id' = last_id + 1
    /\ begins' = begins + 1
    /\ UNCHANGED <<sa_vars, cls, arg, status, scene, clock, ret>>

Interpolate ==
    /\ status = "constructed"
    /\ \E alpha \in Alphas :
          /\ heap' = interpolate(cls, self, heap, alpha)
          /\ hist' = Called("interpolate", alpha)
    /\ UNCHANGED <<sa_vars, cls, arg, status, self, last_id, begins, scene, clock, ret>>

UpdateMobjects ==
    /\ status = "constructed"
    /\ clock < MaxClock
    /\ \E dt \in Dts :
          /\ heap' = update_mobjects(self, heap, dt)
          /\ clock' = IF update_mobjects(self, heap, dt) = heap THEN clock ELSE clock + 1
          /\ hist' = Called("update_mobjects", dt)
    /\ UNCHANGED <<sa_vars, cls, arg, status, self, last_id, begins, scene, ret>>

Finish ==
    /\ status = "constructed"
    /\ LET r == finish(cls, self, heap)
       IN  /\ self' = r[1]
           /\ heap' = r[2]
           /\ hist' = [Called("finish", 0) EXCEPT
                          !.finished = TRUE,
                          !.nested_paused = r[3][self.mobject].updating_suspended]
    /\ UNCHANGED <<sa_vars, cls, arg, status, last_id, begins, scene, clock, ret>>

CleanUpFromScene ==
    /\ status = "constructed"
    /\ scene' = clean_up_from_scene(self, scene)
    /\ hist' = Called("clean_up_from_scene", 0)
    /\ UNCHANGED <<sa_vars, cls, arg, status, self, heap, last_id, begins, clock, ret>>

\* lag_ratio and rate_func vary; remover and suspend_mobject_updating keep
\* their defaults (False, True)
Construct == ConstructWith(LagRatios, RateFuncs, {FALSE}, {TRUE})

Next ==
    \/ Construct
    \/ Begin
    \/ Interpolate
    \/ UpdateMobjects
    \/ Finish
    \/ CleanUpFromScene

Spec == Init /\ [][Next]_vars

\* ------------------------------------ the lifecycle next to a scene
\* remover, suspend_mobject_updating and the scene's membership vary;
\* lag_ratio and rate_func keep their defaults (DEFAULT_ANIMATION_LAG_RATIO,
\* smooth)
DEFAULT_ANIMATION_LAG_RATIO == 0

InitScene == InitWith({FALSE}, {FALSE}, BOOLEAN)

ConstructInScene ==
    ConstructWith({DEFAULT_ANIMATION_LAG_RATIO}, {"smooth"}, BOOLEAN, BOOLEAN)

NextScene ==
    \/ ConstructInScene
    \/ Begin
    \/ Interpolate
    \/ UpdateMobjects
    \/ Finish
    \/ CleanUpFromScene

SpecScene == InitScene /\ [][NextScene]_vars

\* ------------------------------------------- prepare_animation alone
PrepareAnimation ==
    /\ \E x \in PrepInputs :
          /\ x.kind = "Animation" => status = "constructed"
          /\ ret' = [input |-> x] @@ prepare_animation(x)
    /\ UNCHANGED <<sa_vars, cls, arg, status, self, heap, last_id, begins, scene, clock, hist>>

InitAny == InitWith(BOOLEAN, BOOLEAN, BOOLEAN)

ConstructAny == ConstructWith(LagRatios, RateFuncs, BOOLEAN, BOOLEAN)

NextPrepare == ConstructAny \/ PrepareAnimation

SpecPrepare == InitAny /\ [][NextPrepare]_vars

\* ------------------------------------------- properties of the lifecycle
Constructed == status = "constructed"

\* the heap as it was when the last begin() returned, as far as the points
\* of the target and of the snapshot go
HeapAtBegin ==
    [heap EXCEPT ![self.mobject].points = hist.at_begin[1],
                 ![self.starting_mobject].points = hist.at_begin[2]]

\* C5: begin(), any number of interpolate calls, finish() leaves the target
\* in the visual state of begin() followed by one interpolate(1).
C5_FinishIsInterpolateOne ==
    (Constructed /\ hist.op = "finish" /\ hist.begun /\ hist.clean_run) =>
        heap[self.mobject].points
            = interpolate(cls, self, HeapAtBegin, One)[self.mobject].points

C5_Witness ==
    /\ Constructed /\ hist.op = "finish" /\ hist.begun /\ hist.clean_run
    /\ hist.interpolated
    /\ cls = "Shift"
    /\ Len(heap[self.mobject].points) >= 2
    /\ heap[self.mobject].points # hist.at_begin[1]

\* C6: after begin(), a second interpolate(alpha) with the same alpha changes
\* nothing, and no interpolate changes the starting snapshot.
C6_InterpolateIdempotent ==
    [][(Constructed /\ hist.begun /\ hist'.op = "interpolate") =>
          /\ heap'[self.starting_mobject] = heap[self.starting_mobject]
          /\ (hist.op = "interpolate" /\ hist'.arg = hist.arg) => heap' = heap]_vars

C6_Witness ==
    /\ Constructed /\ hist.begun /\ hist.op = "interpolate"
    /\ cls = "Shift"
    /\ heap[self.mobject].points # heap[self.starting_mobject].points
    /\ heap[self.mobject].points # hist.at_begin[1]

\* C7: clean_up_from_scene removes the target from the scene when remover is
\* True and leaves the scene alone when it is False; no other method changes
\* the scene.
C7_SceneMembership ==
    [][IF hist'.op = "clean_up_from_scene"
       THEN /\ self.remover => scene' = scene \ {self.mobject}
            /\ ~self.remover => scene' = scene
       ELSE scene' = scene]_vars

C7_Witness ==
    /\ Constructed /\ hist.op = "clean_up_from_scene"
    /\ self.remover /\ arg.shown
    /\ hist.begun
    /\ self.mobject \notin scene /\ Bystander \in scene

\* C8: a constructor argument that is neither None nor a Mobject or
\* OpenGLMobject raises TypeError before any attribute is set; None gives the
\* animation a new empty Mobject as target.
C8_TypecheckFirst ==
    /\ (status # "new" /\ arg.kind \notin {"None", "Mobject", "OpenGLMobject"}) =>
          /\ status = "TypeError"
          /\ DOMAIN self = {}
          /\ DOMAIN heap = {}
    /\ (status # "new" /\ arg.kind = "None") =>
          /\ status = "constructed"
          /\ self.mobject \in DOMAIN heap
          /\ self.mobject # self.starting_mobject
          /\ self.mobject \notin scene
          /\ heap[self.mobject].cls = "Mobject"
          /\ heap[self.mobject].points = <<>>
          /\ hist.op = "__init__" => heap[self.mobject] = NewMobject

C8_Witness ==
    /\ status = "TypeError" /\ arg.kind = "int" /\ DOMAIN self = {}

\* ------------------------------------- properties of prepare_animation
\* C9: prepare_animation of an Animation returns that instance, unchanged,
\* and invokes no build step.
C9_AnimationReturnedAsIs ==
    [][(ret'.input.kind = "Animation") =>
          /\ ret'.outcome = "return"
          /\ ret'.value = [obj |-> "self", by |-> "none"]
          /\ ret'.builds = 0
          /\ self' = self /\ heap' = heap]_vars

C9_Witness ==
    /\ Constructed /\ ret.input.kind = "Animation" /\ ret.outcome = "return"

\* C10: prepare_animation of an input that is neither an Animation nor a
\* builder raises a TypeError naming the input and returns nothing; of a
\* builder it returns what the builder's build step returns.
C10_BuildOrTypeError ==
    /\ ret.input.kind \in {"int", "None", "Mobject"} =>
          /\ ret.outcome = "TypeError"
          /\ ret.value = NoValue
          /\ ret.msg = <<"Object ", ret.input.repr, " cannot be converted to an animation">>
    /\ ret.input.kind \in {"mobject._AnimationBuilder", "opengl_mobject._AnimationBuilder"} =>
          /\ ret.outcome = "return"
          /\ ret.value = AnimationBuilder_build(ret.input)
          /\ ret.builds = 1

C10_Witness ==
    /\ ret.outcome = "TypeError" /\ ret.input.repr = "42"

\* ----------------------------------------------------------------- Wait
\* Scene.add(mobject): the scheduler shows a mobject
Scene_add(sc, id) == sc \cup {id}

\* Wait.__init__: duration, stop_condition and is_static_wait, then
\* Animation.__init__ with no mobject, then the sentinel target gets an
\* empty shader_wrapper_list
Wait__init__(h, new, run_time, lag_ratio, rate, remover, suspend) ==
    LET r == Animation__init__([kind |-> "None", ref |-> 0, shown |-> FALSE],
                               h, new, lag_ratio, rate, remover, suspend)
        S == [duration |-> run_time, stop_condition |-> "None",
              is_static_wait |-> FALSE] @@ [r.self EXCEPT !.run_time = run_time]
    IN  [r EXCEPT !.self = S,
                  !.heap = [r.heap EXCEPT ![S.mobject] =
                                [shader_wrapper_list |-> <<>>] @@ @]]

\* the overriding methods of Wait: each body is `pass`
Wait_begin(S, h) == <<S, h>>

Wait_finish(S, h) == <<S, h>>

\* variant: the method inherited from Animation
Wait_clean_up_from_scene_inherited(S, sc) == clean_up_from_scene(S, sc)

Wait_clean_up_from_scene(S, sc) == sc

Wait_update_mobjects(S, h, dt) == h

Wait_interpolate(S, h, alpha) == h

InitWait ==
    /\ SaIdle
    /\ cls = "Wait"
    /\ arg = [kind |-> "None", ref |-> 0, shown |-> FALSE]
    /\ status = "new"
    /\ self = NoObject
    /\ heap = NoHeap
    /\ last_id = 0
    /\ begins = 0
    /\ scene = {Bystander}
    /\ clock = 0
    /\ hist = NoHist
    /\ ret = NoReturn

ConstructWait ==
    /\ status = "new"
    /\ \E lag \in LagRatios, rate \in RateFuncs, remover \in BOOLEAN, suspend \in BOOLEAN :
          LET r == Wait__init__(heap, last_id, One, lag, rate, remover, suspend)
          IN  /\ status' = r.status
              /\ self' = r.self
              /\ heap' = r.heap
              /\ last_id' = last_id + r.allocs
    /\ hist' = [hist EXCEPT !.op = "__init__"]
    /\ UNCHANGED <<sa_vars, cls, arg, begins, scene, clock, ret>>

\* the scheduler shows the target of the animation
SceneAdd ==
    /\ status = "constructed"
    /\ self.mobject \notin scene
    /\ scene' = Scene_add(scene, self.mobject)
    /\ hist' = Called("scene_add", 0)
    /\ UNCHANGED <<sa_vars, cls, arg, status, self, heap, last_id, begins, clock, ret>>

WaitBegin ==
    /\ status = "constructed"
    /\ LET r == Wait_begin(self, heap)
       IN  /\ self' = r[1]
           /\ heap' = r[2]
    /\ hist' = Called("begin", 0)
    /\ UNCHANGED <<sa_vars, cls, arg, status, last_id, begins, scene, clock, ret>>

WaitInterpolate ==
    /\ status = "constructed"
    /\ \E alpha \in Alphas :
          /\ heap' = Wait_interpolate(self, heap, alpha)
          /\ hist' = Called("interpolate", alpha)
    /\ UNCHANGED <<sa_vars, cls, arg, status, self, last_id, begins, scene, clock, ret>>

WaitUpdateMobjects ==
    /\ status = "constructed"
    /\ \E dt \in Dts :
          /\ heap' = Wait_update_mobjects(self, heap, dt)
          /\ hist' = Called("update_mobjects", dt)
    /\ UNCHANGED <<sa_vars, cls, arg, status, self, last_id, begins, scene, clock, ret>>

WaitFinish ==
    /\ status = "constructed"
    /\ LET r == Wait_finish(self, heap)
       IN  /\ self' = r[1]
           /\ heap' = r[2]
    /\ hist' = Called("finish", 0)
    /\ UNCHANGED <<sa_vars, cls, arg, status, last_id, begins, scene, clock, ret>>

WaitCleanUpFromScene ==
    /\ status = "constructed"
    /\ scene' = Wait_clean_up_from_scene(self, scene)
    /\ hist' = Called("clean_up_from_scene", 0)
    /\ UNCHANGED <<sa_vars, cls, arg, status, self, heap, last_id, begins, clock, ret>>

NextWait ==
    \/ ConstructWait
    \/ SceneAdd
    \/ WaitBegin
    \/ WaitInterpolate
    \/ WaitUpdateMobjects
    \/ WaitFinish
    \/ WaitCleanUpFromScene

SpecWait == InitWait /\ [][NextWait]_vars

LifecycleOps == {"begin", "finish", "clean_up_from_scene", "update_mobjects", "interpolate"}

\* C11: for a Wait, begin, finish, clean_up_from_scene, update_mobjects and
\* interpolate change neither the target, the starting snapshot, the
\* target's updating status nor the scene, in every order of calls and also
\* when the Wait is a remover.
C11_WaitNoOps ==
    [][(cls = "Wait" /\ Constructed /\ hist'.op \in LifecycleOps) =>
          /\ self' = self
          /\ heap' = heap
          /\ scene' = scene]_vars

C11_Witness ==
    /\ cls = "Wait" /\ Constructed /\ self.remover
    /\ hist.op = "clean_up_from_scene" /\ hist.begun = FALSE
    /\ self.mobject \in scene
    /\ heap[self.mobject].updating_suspended = FALSE
    /\ heap[self.starting_mobject] = NewMobject

\* ------------------------------- the lifecycle next to the updaters
\* whether the target's updating is suspended, whether it has an updater
\* and suspend_mobject_updating vary; lag_ratio, rate_func and remover keep
\* their defaults and the class is the base class
InitUpdating == InitWith(BOOLEAN, BOOLEAN, {TRUE}) /\ cls = "Animation"

ConstructUpdating ==
    ConstructWith({DEFAULT_ANIMATION_LAG_RATIO}, {"smooth"}, {FALSE}, BOOLEAN)

NextUpdating ==
    \/ ConstructUpdating
    \/ Begin
    \/ Interpolate
    \/ UpdateMobjects
    \/ Finish
    \/ CleanUpFromScene

SpecUpdating == InitUpdating /\ [][NextUpdating]_vars

\* C12: with suspend_mobject_updating = True the updating of the target is
\* suspended from the return of begin() until finish() is called, whatever
\* interpolate and update_mobjects calls come between, and is running once
\* finish() has returned; the interpolate(0) of begin and the interpolate(1)
\* of the finish that ends the run are made while it is suspended.
C12_PausedWhileActive ==
    [][(Constructed /\ self.suspend_mobject_updating /\ hist'.begun) =>
          /\ heap'[self.mobject].updating_suspended = ~hist'.finished
          /\ (hist'.op = "begin" \/ (hist'.op = "finish" /\ ~hist.finished))
                 => hist'.nested_paused]_vars

C12_Witness ==
    /\ Constructed /\ self.suspend_mobject_updating
    /\ hist.op = "finish" /\ hist.begun /\ hist.finished /\ hist.nested_paused
    /\ hist.interpolated /\ clock > 0
    /\ ~hist.paused_before
    /\ ~heap[self.mobject].updating_suspended

\* the members of a sequence
Range(f) == {f[i] : i \in DOMAIN f}

\* C13: update_mobjects(dt) applies update(dt) to every mobject the
\* animation tracks other than the target (the starting snapshot), and
\* leaves the target as it is, whether its updating is suspended or not.
C13_UpdatesAllButTarget ==
    [][(Constructed /\ hist'.op = "update_mobjects") =>
          /\ \A m \in Range(get_all_mobjects(self)) \ {self.mobject} :
                heap'[m] = Mobject_update(heap, m, hist'.arg)[m]
          /\ heap'[self.mobject] = heap[self.mobject]]_vars

C13_Witness ==
    /\ Constructed /\ hist.op = "update_mobjects" /\ hist.begun
    /\ heap[self.mobject].has_updater /\ ~heap[self.mobject].updating_suspended
    /\ Len(heap[self.mobject].points) >= 1
    /\ heap[self.mobject].points = hist.at_begin[1]
    /\ heap[self.starting_mobject].points # hist.at_begin[2]

\* the families of the target and of the snapshot, and their pairing
TargetFamily == family_members_with_points(heap, self.mobject)
SnapshotFamily == family_members_with_points(heap, self.starting_mobject)
SameShape ==
    /\ Len(TargetFamily) = Len(SnapshotFamily)
    /\ heap[self.mobject].cls = heap[self.starting_mobject].cls

\* C14 as stated: in every state from construction on, also before begin(),
\* the snapshot and the target enumerate families of the same cardinality
\* and shape, so the pairing drops no member of the target.
C14_AlwaysSameShape ==
    Constructed =>
        /\ SameShape
        /\ Len(get_all_families_zipped(self, heap)) = Len(TargetFamily)

\* C14, amended: this holds from the first begin() on; before it the
\* snapshot is the empty mobject the constructor made, and the pairing is
\* empty whatever the target's family is.
C14_SameShapeOnceBegun ==
    Constructed =>
        IF hist.begun
        THEN /\ SameShape
             /\ Len(get_all_families_zipped(self, heap)) = Len(TargetFamily)
        ELSE /\ heap[self.starting_mobject] = NewMobject
             /\ get_all_families_zipped(self, heap) = <<>>

C14_Witness ==
    /\ Constructed /\ hist.begun /\ cls = "Shift" /\ hist.op = "interpolate"
    /\ Len(TargetFamily) >= 2
    /\ Len(get_all_families_zipped(self, heap)) = Len(TargetFamily)
    /\ heap[self.mobject].points # heap[self.starting_mobject].points

\* a step of begin()
BeginStep == hist'.op = "begin" /\ begins' = begins + 1

\* C15 as stated: the instance goes from Unstarted to Active to Finished to
\* CleanedUp and never back: a begin() after finish() neither retakes the
\* snapshot nor suspends the target again.
C15_NoReentry ==
    [][(Constructed /\ hist.finished /\ BeginStep) =>
          /\ self'.starting_mobject = self.starting_mobject
          /\ heap'[self.mobject].updating_suspended
                 = heap[self.mobject].updating_suspended]_vars

\* C15, amended: no method looks at what was called before.  Every begin(),
\* also one after finish() or clean_up_from_scene(), makes a new copy of the
\* target the snapshot and, with suspend_mobject_updating, suspends the
\* target: the instance is Active again.
C15_BeginAlwaysRestarts ==
    [][(Constructed /\ BeginStep) =>
          /\ self'.starting_mobject \notin DOMAIN heap
          /\ heap'[self'.starting_mobject] = heap[self.mobject]
          /\ self.suspend_mobject_updating => heap'[self.mobject].updating_suspended
          /\ ~hist'.finished]_vars

C15_Witness ==
    /\ Constructed /\ hist.op = "begin" /\ begins = 2
    /\ self.suspend_mobject_updating /\ ~hist.paused_before
    /\ heap[self.mobject].updating_suspended
    /\ Len(heap[self.starting_mobject].points) >= 1

\* C16: interpolate(alpha) with alpha < 0 has the effect of interpolate(0),
\* with alpha > 1 the effect of interpolate(1); the rate function is given
\* a value of [0, 1] in every call, and the effect is that of the family
\* interpolated at the rate function's result for that value.
C16_Clamped ==
    [][(Constructed /\ hist'.op = "interpolate") =>
          /\ hist'.arg < 0 => heap' = interpolate(cls, self, heap, 0)
          /\ hist'.arg > One => heap' = interpolate(cls, self, heap, One)
          /\ interpolate_alpha(hist'.arg) >= 0
          /\ interpolate_alpha(hist'.arg) <= One
          /\ (hist'.arg >= 0 /\ hist'.arg <= One) => interpolate_alpha(hist'.arg) = hist'.arg
          /\ heap' = interpolate_mobject(cls, self, heap,
                         rate_func(self.rate_func, interpolate_alpha(hist'.arg)))]_vars

C16_Witness ==
    /\ Constructed /\ hist.op = "interpolate" /\ hist.begun /\ cls = "Shift"
    /\ hist.arg > One
    /\ self.rate_func = "smooth"
    /\ Len(heap[self.mobject].points) >= 1
    /\ heap[self.mobject].points # heap[self.starting_mobject].points

\* the zipped families an interpolate call of the step works on: those of
\* the new snapshot in begin(), those of the state before otherwise
FamiliesAtCall ==
    IF hist'.op = "begin"
    THEN get_all_families_zipped(self', heap')
    ELSE get_all_families_zipped(self, heap)

\* C17: interpolating over an empty zipped family makes no get_sub_alpha
\* call and no hook call and changes nothing; every get_sub_alpha call has
\* num_submobjects >= 1 and 0 <= index < num_submobjects, one call per pair.
C17_EmptyFamilyNoOp ==
    [][(Constructed /\ hist'.op \in {"begin", "interpolate", "finish"}) =>
          /\ Len(sub_alpha_calls(FamiliesAtCall)) = Len(FamiliesAtCall)
          /\ \A k \in DOMAIN sub_alpha_calls(FamiliesAtCall) :
                /\ sub_alpha_calls(FamiliesAtCall)[k].num_submobjects >= 1
                /\ sub_alpha_calls(FamiliesAtCall)[k].index >= 0
                /\ sub_alpha_calls(FamiliesAtCall)[k].index
                       < sub_alpha_calls(FamiliesAtCall)[k].num_submobjects
          /\ FamiliesAtCall = <<>> =>
                /\ sub_alpha_calls(FamiliesAtCall) = <<>>
                /\ hist'.op = "interpolate" => heap' = heap
                /\ heap'[self.mobject].points = heap[self.mobject].points]_vars

C17_Witness ==
    /\ Constructed /\ hist.op = "interpolate" /\ hist.begun /\ cls = "Shift"
    /\ arg.kind = "Mobject"
    /\ hist.arg = One \div 2
    /\ get_all_families_zipped(self, heap) = <<>>
    /\ heap[self.mobject].points = <<>>

\* C18: each begin() makes a mobject that did not exist before the snapshot,
\* equal to the target as it was when begin() was called (before the
\* suspension and interpolate(0)) and distinct from it; interpolate,
\* update_mobjects, finish and clean_up_from_scene keep the snapshot the
\* same object, and interpolate and finish keep its content.
C18_FreshSnapshot ==
    [][Constructed =>
          /\ BeginStep =>
                /\ self'.starting_mobject \notin DOMAIN heap
                /\ self'.starting_mobject # self'.mobject
                /\ heap'[self'.starting_mobject] = heap[self.mobject]
                /\ self'.mobject = self.mobject
          /\ hist'.op \in {"interpolate", "update_mobjects", "finish", "clean_up_from_scene"} =>
                self'.starting_mobject = self.starting_mobject
          /\ hist'.op \in {"interpolate", "finish"} =>
                heap'[self.starting_mobject] = heap[self.starting_mobject]]_vars

C18_Witness ==
    /\ Constructed /\ hist.op = "begin" /\ begins = 2 /\ cls = "Shift"
    /\ Len(heap[self.starting_mobject].points) >= 1
    /\ heap[self.starting_mobject].points[1] # 0
    /\ heap[self.starting_mobject].points = hist.at_begin[2]
    /\ ~heap[self.starting_mobject].updating_suspended
    /\ heap[self.mobject].updating_suspended

\* C19: for lag_ratio in [0, 1] and n >= 1 every result of get_sub_alpha is
\* in [0, 1], a member is never further along than the member before it, and
\* a larger alpha never gives a member a smaller result.
C19_Monotone ==
    SaDone =>
        /\ \A i \in 1..sa_args.n : sa_result[i] >= 0 /\ sa_result[i] <= One
        /\ \A i \in 1..(sa_args.n - 1) : sa_result[i] >= sa_result[i + 1]
        /\ \A later \in Floats01 :
              later >= sa_args.alpha =>
                  \A i \in 1..sa_args.n :
                      get_sub_alpha(sa_args.lag_ratio, later, i - 1, sa_args.n) >= sa_result[i]

C19_Witness ==
    /\ SaDone /\ sa_args.n >= 3
    /\ sa_args.lag_ratio > 0 /\ sa_args.lag_ratio < One
    /\ sa_result[1] < One
    /\ sa_result[1] > sa_result[2] /\ sa_result[2] > sa_result[3]
    /\ \E later \in Floats01 :
          /\ later > sa_args.alpha
          /\ get_sub_alpha(sa_args.lag_ratio, later, 2, sa_args.n) > sa_result[3]

\* C20: a begin() ... finish() cycle leaves the updating of the target
\* suspended or running as it was when begin() was called, for either value
\* of suspend_mobject_updating and either status before; and with
\* suspend_mobject_updating = False no method changes that status.
C20_StatusRestored ==
    [][Constructed =>
          /\ (hist'.op = "finish" /\ hist.begun /\ ~hist.finished /\ begins = 1) =>
                heap'[self.mobject].updating_suspended = hist.paused_before
          /\ ~self.suspend_mobject_updating =>
                heap'[self.mobject].updating_suspended
                    = heap[self.mobject].updating_suspended]_vars

====
